---- MODULE Spec2Model ----
(***************************************************************************)
(* Verification model of the jumpserver backend slice:                     *)
(*   apps/common/db/models.py          UnionQuerySet, BitOperationChoice,  *)
(*                                     MultiTableChildQueryset             *)
(*   apps/terminal/serializers/storage.py   es_host_format_validator,      *)
(*                                     validate_meta                       *)
(* Each part of the program has its own specification (SpecUnion, SpecES,  *)
(* SpecBulk, SpecBit, SpecMeta); the variables of the other parts stay at  *)
(* their idle values.                                                      *)
(***************************************************************************)
EXTENDS Integers, Sequences, FiniteSets, TLC

VARIABLES
    \* ---- UnionQuerySet (common/db/models.py) ----
    uqs,          \* the UnionQuerySet objects created so far, by object id
    lists,        \* the heap of Python list objects, by list id
    executions,   \* how many times __execute has run
    lastResult,   \* the queryset the last __execute returned
    callLog,      \* history: at each constructed object's id, the deferred calls made on
                  \* it and on its clones, in the order made
    op,           \* the last operation performed on a UnionQuerySet
    \* ---- es_host_format_validator (terminal/serializers/storage.py) ----
    es_host,      \* the host string handed to the validator
    es_outcome,   \* "pending", "return", "ValidationError" or "ValueError"
    es_value,     \* the value returned, or the error message raised
    \* ---- MultiTableChildQueryset.bulk_create (common/db/models.py) ----
    bc_pc,            \* where the call stands: "ready", "parents", "children",
                      \* "returned" or "raised"
    bc_objs,          \* the child objects handed to bulk_create
    bc_batch,         \* batch_size (0 stands for None)
    bc_pos,           \* the index of the first object of the next batch
    bc_inAtomic,      \* the caller holds an open transaction.atomic block
    bc_failedIn,      \* "", or the insert that raised: "parents" or "children"
    bc_result,        \* what the call returned
    bc_before,        \* history: both tables as they were when the call began
    bc_calls,         \* calls made so far
    parentRows,       \* ids of the parent table's rows, as the connection sees them
    childRows,        \* ids (parent links) of the child table's rows, likewise
    committedParent,  \* the parent table's committed rows
    committedChild,   \* the child table's committed rows
    \* ---- BitOperationChoice (common/db/models.py) ----
    bit_db,       \* the subclass's DB_CHOICES: its values, in the order of the tuple
    bit_in,       \* the argument: [kind |-> "int" | "list" | "other", v |-> ...]
    bit_names,    \* what value_to_choices returned
    bit_value,    \* what choices_to_value returned
    bit_pc,       \* "start", "names" or "done"
    \* ---- validate_meta (terminal/serializers/storage.py) ----
    dicts,        \* the heap of Python dict objects, by address
    meta_inst,    \* the address of self.instance.meta; 0 when self.instance is None
    meta_in,      \* the submitted meta
    meta_out,     \* the address of the dict validate_meta returned; 0 before
    meta_before,  \* history: self.instance.meta as it was when the request began
    meta_db,      \* the meta column of the stored row
    meta_pc,      \* "request", "validated", "invalid" or "saved"
    \* ---- get_meta_serializer (terminal/serializers/storage.py) ----
    ser_kind,     \* the serializer: "replay" or "command"
    ser_inst,     \* self.instance: [cls |-> the model class or "None", type |-> its type]
    ser_query,    \* query_params.get('type'): "None" when the parameter is absent
    ser_class,    \* the class get_meta_serializer instantiated
    ser_pc,       \* "start" or "done"
    \* ---- ProtocolsMixin and AssetQuerySet.has_protocol (assets/models/asset/common.py) ----
    pr_protocols, \* the asset's protocols string
    pr_name,      \* the protocol name asked for
    pr_selected,  \* whether AssetQuerySet.has_protocol selects the asset: "yes", "no"
    pr_has,       \* what ProtocolsMixin.has_protocol gave: "yes", "no", "ValueError"
    pr_dict,      \* what protocols_as_dict gave: [raised, d], d the items in order
    pr_ssh_port,  \* what ssh_port gave (0 before, and when it raised)
    pr_pc,        \* "start", "selected", "compared", "dict" or "port"
    \* ---- Asset.save (assets/models/asset/common.py) ----
    as_asset,     \* the Asset object: [type, category, platform]
    as_before,    \* the object as it was when save was called
    as_row,       \* the asset's row in the database, NoRow before the first write
    as_written,   \* the fields the last save wrote to the row
    as_op         \* the last operation: "new", "assign", "save" or "save_raised"

unionVars == <<uqs, lists, executions, lastResult, callLog, op>>

esVars == <<es_host, es_outcome, es_value>>

bulkVars == <<bc_pc, bc_objs, bc_batch, bc_pos, bc_inAtomic, bc_failedIn, bc_result,
              bc_before, bc_calls, parentRows, childRows, committedParent,
              committedChild>>

bitVars == <<bit_db, bit_in, bit_names, bit_value, bit_pc>>

metaVars == <<dicts, meta_inst, meta_in, meta_out, meta_before, meta_db, meta_pc>>

serVars == <<ser_kind, ser_inst, ser_query, ser_class, ser_pc>>

protoVars == <<pr_protocols, pr_name, pr_selected, pr_has, pr_dict, pr_ssh_port, pr_pc>>

assetVars == <<as_asset, as_before, as_row, as_written, as_op>>

vars == <<unionVars, esVars, bulkVars, bitVars, metaVars, serVars, protoVars, assetVars>>

\* an operation of one part of the program leaves the other parts alone
OnlyUnion == UNCHANGED <<esVars, bulkVars, bitVars, metaVars, serVars, protoVars, assetVars>>
OnlyES == UNCHANGED <<unionVars, bulkVars, bitVars, metaVars, serVars, protoVars, assetVars>>
OnlyBulk == UNCHANGED <<unionVars, esVars, bitVars, metaVars, serVars, protoVars, assetVars>>
OnlyBit == UNCHANGED <<unionVars, esVars, bulkVars, metaVars, serVars, protoVars, assetVars>>
OnlyMeta == UNCHANGED <<unionVars, esVars, bulkVars, bitVars, serVars, protoVars, assetVars>>
OnlySer == UNCHANGED <<unionVars, esVars, bulkVars, bitVars, metaVars, protoVars, assetVars>>
OnlyProto == UNCHANGED <<unionVars, esVars, bulkVars, bitVars, metaVars, serVars, assetVars>>
OnlyAsset == UNCHANGED <<unionVars, esVars, bulkVars, bitVars, metaVars, serVars, protoVars>>

(***************************************************************************)
(* Bounds                                                                  *)
(***************************************************************************)
\* UnionQuerySet objects that may exist (constructed or cloned)
MaxObjs == 3
\* runs of __execute
MaxExec == 1
\* characters of a host string after its scheme prefix
MaxTail == 4
\* ids a model object may carry: 1..MaxId
MaxId == 2
\* objects in one bulk_create call
MaxBulkObjs == 2
\* bulk_create calls in one run
MaxBulkCalls == 2
\* values a DB_CHOICES entry may have: 0..MaxChoice
MaxChoice == 5
\* integers handed to value_to_choices: 0..MaxValue
MaxValue == 8
\* values of a meta key: 1..MaxMetaVal
MaxMetaVal == 2
\* characters of one entry of a protocols string
MaxEntryLen == 3

(***************************************************************************)
(* UnionQuerySet                                                           *)
(*                                                                         *)
(* A Django queryset is written in postfix: the base queryset, the calls   *)
(* applied to it, and a union token after the two operands of a union.     *)
(***************************************************************************)
BaseTok(n) == [t |-> "base", n |-> n, a |-> 0]
CallTok(n, a) == [t |-> "call", n |-> n, a |-> a]
UnionTok == [t |-> "union", n |-> "", a |-> 0]

\* class attribute after_union
after_union == {"order_by"}

\* class attribute not_return_qs (two of its names stand for all)
not_return_qs == {"count", "first"}

\* names defined in the class body of UnionQuerySet, and the instance attributes
UnionQuerySetDict == {"test_it"}
InstanceAttrs == {"queryset_list"}
\* names that start with two underscores
DunderNames == {"__class__"}

\* bound methods of a django QuerySet, and its attributes that are no methods
QuerySetMethods == {"filter", "order_by"}
QuerySetNonMethods == {"db"}

\* the arguments of a deferred call
CallArgs == {1, 2}

\* the attribute names looked up on a UnionQuerySet
Items == not_return_qs \cup UnionQuerySetDict \cup InstanceAttrs \cup DunderNames
           \cup QuerySetMethods \cup QuerySetNonMethods

\* the queryset lists a UnionQuerySet is constructed with
QuerysetLists == { <<BaseTok("A")>>, <<BaseTok("B"), BaseTok("A"), BaseTok("C")>> }

\* getattr(qs, attr)(*args, **kwargs) on a queryset
ApplyCall(qs, item) == Append(qs, CallTok(item.name, item.arg))

RECURSIVE ApplyAll(_, _)
ApplyAll(qs, items) ==
    IF items = <<>> THEN qs
    ELSE ApplyAll(ApplyCall(qs, Head(items)), Tail(items))

\* x.union(y)
UnionOf(x, y) == x \o y \o <<UnionTok>>

\* reduce(lambda x, y: x.union(y), queryset_list)
RECURSIVE ReduceUnion(_, _)
ReduceUnion(acc, rest) ==
    IF rest = <<>> THEN acc
    ELSE ReduceUnion(UnionOf(acc, Head(rest)), Tail(rest))

\* a faulty __execute: the order_by calls are applied to each constituent queryset
\* before the union instead of to the union result
ExecuteOrderBeforeUnion(o) ==
    LET before == lists[uqs[o].before]
        after == lists[uqs[o].after]
        queryset_list == [i \in 1..Len(uqs[o].queryset_list) |->
                             ApplyAll(ApplyAll(<<uqs[o].queryset_list[i]>>, before), after)]
    IN ReduceUnion(Head(queryset_list), Tail(queryset_list))

\* UnionQuerySet.__execute
Execute(o) ==
    LET before == lists[uqs[o].before]
        after == lists[uqs[o].after]
        queryset_list == [i \in 1..Len(uqs[o].queryset_list) |->
                             ApplyAll(<<uqs[o].queryset_list[i]>>, before)]
        union_qs == ReduceUnion(Head(queryset_list), Tail(queryset_list))
    IN ApplyAll(union_qs, after)

\* UnionQuerySet.__clone: the new object refers to the receiver's two lists
Clone(o) ==
    [queryset_list |-> uqs[o].queryset_list,
     after |-> uqs[o].after,
     before |-> uqs[o].before,
     root |-> uqs[o].root]

\* a faulty __getattribute__: the inspect.ismethod test is inverted, so that a
\* queryset method executes the union and a plain attribute is deferred
ClassifyMethodsExecute(item) ==
    IF item \in DunderNames \/ item \in UnionQuerySetDict \/ item \in InstanceAttrs
    THEN "own"
    ELSE IF item \in not_return_qs THEN "execute"
    ELSE IF item \in QuerySetMethods THEN "execute"
    ELSE IF item \in after_union THEN "after"
    ELSE "before"

\* which branch of __getattribute__ an attribute name takes
Classify(item) ==
    IF item \in DunderNames \/ item \in UnionQuerySetDict \/ item \in InstanceAttrs
    THEN "own"
    ELSE IF item \in not_return_qs THEN "execute"
    ELSE IF item \notin QuerySetMethods THEN "execute"
    ELSE IF item \in after_union THEN "after"
    ELSE "before"

\* the list a deferred call is appended to
TargetList(o, item) ==
    IF Classify(item) = "after" THEN uqs[o].after ELSE uqs[o].before

NoOp == [kind |-> "none", obj |-> 0, item |-> "", arg |-> 0]

IdleUnion ==
    /\ uqs = <<>>
    /\ lists = <<>>
    /\ executions = 0
    /\ lastResult = <<>>
    /\ callLog = <<>>
    /\ op = NoOp

InitUnionPart ==
    /\ uqs = <<>>
    /\ lists = <<>>
    /\ executions = 0
    /\ lastResult = <<>>
    /\ callLog = <<>>
    /\ op = NoOp

\* UnionQuerySet(*queryset_list)
Construct(ql) ==
    /\ OnlyUnion
    /\ Len(uqs) < MaxObjs
    /\ LET id == Len(uqs) + 1
           la == Len(lists) + 1
           lb == Len(lists) + 2
       IN /\ uqs' = Append(uqs, [queryset_list |-> ql, after |-> la,
                                 before |-> lb, root |-> id])
          /\ lists' = lists \o << <<>>, <<>> >>
          /\ callLog' = Append(callLog, <<>>)
          /\ op' = [kind |-> "construct", obj |-> id, item |-> "", arg |-> 0]
    /\ UNCHANGED <<executions, lastResult>>

\* o.<item>(arg) for a deferred method: __getattribute__ hands out the partial
\* of __before_union_perform / __after_union_perform, and the call runs it
CallDeferred(o, item, arg) ==
    /\ OnlyUnion
    /\ Len(uqs) < MaxObjs
    /\ Classify(item) \in {"after", "before"}
    /\ LET l == TargetList(o, item)
       IN lists' = [lists EXCEPT ![l] = Append(@, [name |-> item, arg |-> arg])]
    /\ uqs' = Append(uqs, Clone(o))
    /\ callLog' = Append([callLog EXCEPT ![uqs[o].root] =
                              Append(@, [name |-> item, arg |-> arg])], <<>>)
    /\ op' = [kind |-> "defer", obj |-> o, item |-> item, arg |-> arg]
    /\ UNCHANGED <<executions, lastResult>>

\* o.<item> for a name __getattribute__ resolves on the object itself
GetOwn(o, item) ==
    /\ OnlyUnion
    /\ Classify(item) = "own"
    /\ op' = [kind |-> "own", obj |-> o, item |-> item, arg |-> 0]
    /\ UNCHANGED <<uqs, lists, executions, lastResult, callLog>>

\* o.<item> for a name in not_return_qs or a non-method attribute of the
\* first queryset: getattr(self.__execute(), item)
GetTerminal(o, item) ==
    /\ OnlyUnion
    /\ Classify(item) = "execute"
    /\ executions < MaxExec
    /\ executions' = executions + 1
    /\ lastResult' = Execute(o)
    /\ op' = [kind |-> "terminal", obj |-> o, item |-> item, arg |-> 0]
    /\ UNCHANGED <<uqs, lists, callLog>>

\* o[item], iter(o), str(o), repr(o)
SpecialMethods == {"__getitem__", "__iter__"}

Special(o, m) ==
    /\ OnlyUnion
    /\ executions < MaxExec
    /\ executions' = executions + 1
    /\ lastResult' = Execute(o)
    /\ op' = [kind |-> "special", obj |-> o, item |-> m, arg |-> 0]
    /\ UNCHANGED <<uqs, lists, callLog>>

NextUnion ==
    \/ \E ql \in QuerysetLists : Construct(ql)
    \/ \E o \in DOMAIN uqs, item \in Items, arg \in CallArgs : CallDeferred(o, item, arg)
    \/ \E o \in DOMAIN uqs, item \in Items : GetOwn(o, item)
    \/ \E o \in DOMAIN uqs, item \in Items : GetTerminal(o, item)
    \/ \E o \in DOMAIN uqs, m \in SpecialMethods : Special(o, m)


(***************************************************************************)
(* es_host_format_validator                                                *)
(*                                                                         *)
(* A string is a sequence of characters.  The letters of a scheme word are *)
(* kept together as one element ("http", "https", "HTTP", "ftp"); no other *)
(* element holds one of their letters, so a scheme equals 'http' exactly   *)
(* when it is the one-element sequence <<"http">>.                         *)
(***************************************************************************)
SchemeWords == {"http", "https", "HTTP", "ftp"}
Letters == SchemeWords \cup {"a"}
Digits == {"1"}
\* urllib.parse.scheme_chars (letters, digits and "+-.")
scheme_chars == Letters \cup Digits
TailChars == {"a", "1", ":", "/", "@"}

\* str.lower
Lower(str) == [i \in 1..Len(str) |-> IF str[i] = "HTTP" THEN "http" ELSE str[i]]

\* str.find(c): the first index of c (from 1), 0 when absent
Find(str, c) ==
    IF \E i \in 1..Len(str) : str[i] = c
    THEN CHOOSE i \in 1..Len(str) : str[i] = c /\ \A j \in 1..(i - 1) : str[j] # c
    ELSE 0

\* urllib.parse._splitnetloc(url, 2): the end of the network location is the
\* first of "/", "?", "#" after the two slashes
NetlocEnd(url) ==
    IF \E i \in 3..Len(url) : url[i] \in {"/", "?", "#"}
    THEN (CHOOSE i \in 3..Len(url) :
             /\ url[i] \in {"/", "?", "#"}
             /\ \A j \in 3..(i - 1) : url[j] \notin {"/", "?", "#"}) - 1
    ELSE Len(url)

\* urllib.parse.urlparse(host): the scheme and the network location
urlparse(host) ==
    LET i == Find(host, ":")
        hasScheme == /\ i > 1
                     /\ host[1] \in Letters
                     /\ \A k \in 1..(i - 1) : host[k] \in scheme_chars
        scheme == IF hasScheme THEN Lower(SubSeq(host, 1, i - 1)) ELSE <<>>
        url == IF hasScheme THEN SubSeq(host, i + 1, Len(host)) ELSE host
        netloc == IF Len(url) >= 2 /\ url[1] = "/" /\ url[2] = "/"
                  THEN SubSeq(url, 3, NetlocEnd(url))
                  ELSE <<>>
    IN [scheme |-> scheme, netloc |-> netloc]

\* str.split(':'): the pieces between the colons
RECURSIVE SplitColon(_)
SplitColon(str) ==
    LET i == Find(str, ":")
    IN IF i = 0 THEN <<str>>
       ELSE <<SubSeq(str, 1, i - 1)>> \o SplitColon(SubSeq(str, i + 1, Len(str)))

\* str.isdigit: at least one character, and all of them digits
isdigit(str) == str # <<>> /\ \A i \in 1..Len(str) : str[i] \in Digits

Raise(kind, msg) == [outcome |-> kind, value |-> msg]

\* a faulty validator: the test of the host part is missing
es_host_format_validator_NoHostTest(host) ==
    LET h == urlparse(host)
        default_error_msg == <<"The address format is incorrect">>
        parts == SplitColon(h.netloc)
    IN IF h.scheme \notin {<<"http">>, <<"https">>}
       THEN Raise("ValidationError", default_error_msg)
       ELSE IF Find(h.netloc, ":") = 0
       THEN Raise("ValidationError", default_error_msg)
       ELSE IF Len(parts) # 2
       THEN Raise("ValueError", <<"too many values to unpack (expected 2)">>)
       ELSE IF ~isdigit(parts[2])
       THEN Raise("ValidationError", <<"Port invalid">>)
       ELSE [outcome |-> "return", value |-> host]

\* es_host_format_validator(host)
es_host_format_validator(host) ==
    LET h == urlparse(host)
        default_error_msg == <<"The address format is incorrect">>
        parts == SplitColon(h.netloc)
    IN IF h.scheme \notin {<<"http">>, <<"https">>}
       THEN Raise("ValidationError", default_error_msg)
       ELSE IF Find(h.netloc, ":") = 0
       THEN Raise("ValidationError", default_error_msg)
       \* _host, _port = h.netloc.split(':') unpacks exactly two pieces
       ELSE IF Len(parts) # 2
       THEN Raise("ValueError", <<"too many values to unpack (expected 2)">>)
       ELSE IF parts[1] = <<>>
       THEN Raise("ValidationError", <<"Host invalid">>)
       ELSE IF ~isdigit(parts[2])
       THEN Raise("ValidationError", <<"Port invalid">>)
       ELSE [outcome |-> "return", value |-> host]

\* the strings over TailChars of length n, and of length at most n
RECURSIVE StringsOfLen(_)
StringsOfLen(n) ==
    IF n = 0 THEN { <<>> }
    ELSE { Append(str, c) : str \in StringsOfLen(n - 1), c \in TailChars }

RECURSIVE StringsUpTo(_)
StringsUpTo(n) == IF n = 0 THEN { <<>> } ELSE StringsOfLen(n) \cup StringsUpTo(n - 1)

\* how the host strings handed to the validator begin
HostPrefixes ==
    { <<"http", ":", "/", "/">>, <<"https", ":", "/", "/">>,
      <<"HTTP", ":", "/", "/">>, <<"ftp", ":", "/", "/">>,
      <<"http", ":">>, <<"/", "/">>, <<>> }

\* the values of a HOSTS list the child CharField hands to its validator
Hosts == { pre \o tail : pre \in HostPrefixes, tail \in StringsUpTo(MaxTail) }

IdleES ==
    /\ es_host = <<>>
    /\ es_outcome = "idle"
    /\ es_value = <<>>

InitESPart ==
    /\ es_host \in Hosts
    /\ es_outcome = "pending"
    /\ es_value = <<>>

\* the CharField child of HOSTS runs its validator on the host
ValidateHost ==
    /\ OnlyES
    /\ es_outcome = "pending"
    /\ LET r == es_host_format_validator(es_host)
       IN /\ es_outcome' = r.outcome
          /\ es_value' = r.value
    /\ UNCHANGED es_host

NextES == ValidateHost

(***************************************************************************)
(* MultiTableChildQueryset.bulk_create                                     *)
(*                                                                         *)
(* An object is [id, pk]: obj.id and the attribute named                   *)
(* self.model._meta.pk.attname (the link to the parent row); 0 stands for  *)
(* None.  A row of either table is known by its id.  Each insert statement *)
(* of a batch may be refused by the database.                              *)
(***************************************************************************)
Ids == 1..MaxId
NoneId == 0

\* a new child object: its id is set (JMSBaseModel.id has a default), its
\* parent link is not
NewObj(id) == [id |-> id, pk |-> NoneId]

RECURSIVE ObjLists(_)
ObjLists(n) ==
    IF n = 0 THEN { <<>> }
    ELSE ObjLists(n - 1) \cup
         { Append(l, NewObj(id)) : l \in { x \in ObjLists(n - 1) : Len(x) = n - 1 },
                                   id \in Ids }

BatchSizes == {0, 1, 2}

\* a faulty loop body: the parent link of the object is never set
SetPkAttrMissing(obj) == obj

\* setattr(obj, self.model._meta.pk.attname, obj.id)
SetPkAttr(obj) == [obj EXCEPT !.pk = obj.id]

\* the loop over objs: what it leaves in each object
PrepareObjs(objs) == [i \in 1..Len(objs) |-> SetPkAttr(objs[i])]

\* the last index of the batch that starts at pos (QuerySet._batched_insert)
BatchEnd(pos, n, batch) ==
    IF batch = 0 THEN n
    ELSE IF pos + batch - 1 < n THEN pos + batch - 1 ELSE n

ParentIds(objs, from, to) == { objs[i].id : i \in from..to }
ChildPks(objs, from, to) == { objs[i].pk : i \in from..to }

\* no two of objs[from..to] carry the same id, or the same parent link
DistinctIds(objs, from, to) ==
    \A i, j \in from..to : i # j => objs[i].id # objs[j].id

DistinctPks(objs, from, to) ==
    \A i, j \in from..to : i # j => objs[i].pk # objs[j].pk

IdleBulk ==
    /\ bc_pc = "idle"
    /\ bc_objs = <<>>
    /\ bc_batch = 0
    /\ bc_pos = 0
    /\ bc_inAtomic = FALSE
    /\ bc_failedIn = ""
    /\ bc_result = <<>>
    /\ bc_before = [parent |-> {}, child |-> {}]
    /\ bc_calls = 0
    /\ parentRows = {}
    /\ childRows = {}
    /\ committedParent = {}
    /\ committedChild = {}

InitBulkPart ==
    /\ bc_pc = "ready"
    /\ bc_objs = <<>>
    /\ bc_batch = 0
    /\ bc_pos = 0
    /\ bc_inAtomic = FALSE
    /\ bc_failedIn = ""
    /\ bc_result = <<>>
    /\ bc_before = [parent |-> {}, child |-> {}]
    /\ bc_calls = 0
    /\ parentRows = {}
    /\ childRows = {}
    /\ committedParent = {}
    /\ committedChild = {}

\* the end of an atomic block that is not nested in another: commit
Commit(parent, child) ==
    /\ committedParent' = parent
    /\ committedChild' = child

\* the end of an outermost atomic block by an exception: roll back
Rollback ==
    /\ parentRows' = committedParent
    /\ childRows' = committedChild
    /\ UNCHANGED <<committedParent, committedChild>>

\* bulk_create(objs, batch_size) up to the call of the parent's bulk_create;
\* atomic tells whether the caller holds an open transaction.atomic block
BulkCreateCall(objs, batch, atomic) ==
    /\ OnlyBulk
    /\ bc_pc \in {"ready", "returned", "raised"}
    /\ ~bc_inAtomic
    /\ bc_calls < MaxBulkCalls
    /\ bc_calls' = bc_calls + 1
    /\ bc_batch' = batch
    /\ bc_before' = [parent |-> parentRows, child |-> childRows]
    /\ bc_failedIn' = ""
    /\ IF objs = <<>>
       THEN \* if not objs: return objs
            /\ bc_pc' = "returned"
            /\ bc_objs' = objs
            /\ bc_result' = objs
            /\ bc_pos' = 0
       ELSE /\ bc_pc' = "parents"
            /\ bc_objs' = PrepareObjs(objs)
            /\ bc_result' = <<>>
            /\ bc_pos' = 1
    /\ bc_inAtomic' = atomic
    /\ UNCHANGED <<parentRows, childRows, committedParent, committedChild>>

\* parent_model.objects.bulk_create(parent_objs, batch_size): one batch is
\* inserted; the database refuses a batch with an id it holds already or with
\* the same id twice
InsertParentBatch ==
    /\ OnlyBulk
    /\ bc_pc = "parents"
    /\ LET to == BatchEnd(bc_pos, Len(bc_objs), bc_batch)
           ids == ParentIds(bc_objs, bc_pos, to)
       IN IF ids \cap parentRows = {} /\ DistinctIds(bc_objs, bc_pos, to)
          THEN /\ parentRows' = parentRows \cup ids
               /\ childRows' = childRows
               /\ bc_failedIn' = bc_failedIn
               /\ IF to = Len(bc_objs)
                  THEN \* the parent's atomic block ends
                       /\ bc_pc' = "children"
                       /\ bc_pos' = 1
                       /\ IF bc_inAtomic
                          THEN UNCHANGED <<committedParent, committedChild>>
                          ELSE Commit(parentRows \cup ids, childRows)
                  ELSE /\ bc_pc' = "parents"
                       /\ bc_pos' = to + 1
                       /\ UNCHANGED <<committedParent, committedChild>>
          ELSE /\ bc_pc' = "raised"
               /\ bc_failedIn' = "parents"
               /\ bc_pos' = bc_pos
               /\ IF bc_inAtomic
                  THEN UNCHANGED <<parentRows, childRows, committedParent,
                                   committedChild>>
                  ELSE Rollback
    /\ UNCHANGED <<bc_objs, bc_batch, bc_inAtomic, bc_result, bc_before, bc_calls>>

\* with transaction.atomic(using=self.db, savepoint=False):
\*     self._batched_insert(objs, self.model._meta.local_fields, batch_size)
\* one batch is inserted; the database refuses a batch with a missing or repeated
\* parent link, and may refuse any batch (refused) for the child's own columns
InsertChildBatch(refused) ==
    /\ OnlyBulk
    /\ bc_pc = "children"
    /\ LET to == BatchEnd(bc_pos, Len(bc_objs), bc_batch)
           pks == ChildPks(bc_objs, bc_pos, to)
       IN IF /\ ~refused
             /\ NoneId \notin pks
             /\ pks \cap childRows = {}
             /\ DistinctPks(bc_objs, bc_pos, to)
          THEN /\ childRows' = childRows \cup pks
               /\ parentRows' = parentRows
               /\ bc_failedIn' = bc_failedIn
               /\ IF to = Len(bc_objs)
                  THEN /\ bc_pc' = "returned"
                       /\ bc_result' = bc_objs
                       /\ bc_pos' = bc_pos
                       /\ IF bc_inAtomic
                          THEN UNCHANGED <<committedParent, committedChild>>
                          ELSE Commit(parentRows, childRows \cup pks)
                  ELSE /\ bc_pc' = "children"
                       /\ bc_result' = bc_result
                       /\ bc_pos' = to + 1
                       /\ UNCHANGED <<committedParent, committedChild>>
          ELSE /\ bc_pc' = "raised"
               /\ bc_failedIn' = "children"
               /\ bc_pos' = bc_pos
               /\ bc_result' = bc_result
               /\ IF bc_inAtomic
                  THEN UNCHANGED <<parentRows, childRows, committedParent,
                                   committedChild>>
                  ELSE Rollback
    /\ UNCHANGED <<bc_objs, bc_batch, bc_inAtomic, bc_before, bc_calls>>

\* the caller's transaction.atomic block ends: by the exception, or normally
CallerAtomicExit ==
    /\ OnlyBulk
    /\ bc_inAtomic
    /\ bc_pc \in {"returned", "raised"}
    /\ bc_inAtomic' = FALSE
    /\ IF bc_pc = "raised"
       THEN Rollback
       ELSE /\ Commit(parentRows, childRows)
            /\ UNCHANGED <<parentRows, childRows>>
    /\ UNCHANGED <<bc_pc, bc_objs, bc_batch, bc_pos, bc_failedIn, bc_result, bc_before,
                   bc_calls>>

NextBulk ==
    \/ \E objs \in ObjLists(MaxBulkObjs), batch \in BatchSizes, atomic \in BOOLEAN :
           BulkCreateCall(objs, batch, atomic)
    \/ InsertParentBatch
    \/ \E refused \in BOOLEAN : InsertChildBatch(refused)
    \/ CallerAtomicExit

(***************************************************************************)
(* BitOperationChoice                                                      *)
(***************************************************************************)
\* BitOperationChoice.NONE
NONE == 0

\* x & y and x | y on non-negative integers
RECURSIVE BitAnd(_, _)
BitAnd(x, y) ==
    IF x = 0 \/ y = 0 THEN 0
    ELSE (x % 2) * (y % 2) + 2 * BitAnd(x \div 2, y \div 2)

RECURSIVE BitOr(_, _)
BitOr(x, y) ==
    IF x = 0 THEN y
    ELSE IF y = 0 THEN x
    ELSE (IF x % 2 = 1 \/ y % 2 = 1 THEN 1 ELSE 0) + 2 * BitOr(x \div 2, y \div 2)

ChoiceValues == 0..MaxChoice

\* the subclass's NAME_MAP: a name for every value, no name twice
NAME_MAP == [i \in ChoiceValues |-> <<"name", i>>]

KnownNames == { NAME_MAP[i] : i \in ChoiceValues }

\* the subclass's NAME_MAP_REVERSE: the inverse of NAME_MAP
NAME_MAP_REVERSE == [n \in KnownNames |-> CHOOSE i \in ChoiceValues : NAME_MAP[i] = n]

UnknownName == <<"unknown", 0>>

\* the ascending sequence of a set of integers
RECURSIVE SortedSeq(_)
SortedSeq(S) ==
    IF S = {} THEN <<>>
    ELSE LET m == CHOOSE x \in S : \A y \in S : x <= y
         IN <<m>> \o SortedSeq(S \ {m})

\* a faulty value_to_choices: a choice is taken when it shares a bit with value
value_to_choices_AnyBit(value, db) ==
    IF value.kind = "list" THEN value.v
    ELSE LET keep == SelectSeq(db, LAMBDA i : BitAnd(value.v, i) # 0)
         IN [k \in 1..Len(keep) |-> NAME_MAP[keep[k]]]

\* BitOperationChoice.value_to_choices, for a class with DB_CHOICES db
value_to_choices(value, db) ==
    IF value.kind = "list" THEN value.v
    ELSE LET keep == SelectSeq(db, LAMBDA i : BitAnd(value.v, i) = i)
         IN [k \in 1..Len(keep) |-> NAME_MAP[keep[k]]]

\* reduce(to_choices, db_value)
RECURSIVE ReduceOr(_, _)
ReduceOr(acc, rest) ==
    IF rest = <<>> THEN acc
    ELSE ReduceOr(BitOr(acc, Head(rest)), Tail(rest))

\* BitOperationChoice.choices_to_value
choices_to_value(value) ==
    IF value.kind # "list" THEN NONE
    ELSE LET known == SelectSeq(value.v, LAMBDA n : n \in DOMAIN NAME_MAP_REVERSE)
             db_value == [k \in 1..Len(known) |-> NAME_MAP_REVERSE[known[k]]]
         IN IF db_value = <<>> THEN NONE
            ELSE ReduceOr(Head(db_value), Tail(db_value))

\* the lists of names handed to choices_to_value directly
NameLists ==
    LET names == KnownNames \cup {UnknownName}
    IN { <<>> } \cup { <<n>> : n \in names } \cup { <<n, m>> : n, m \in names }

BitInputs ==
    { [kind |-> "int", v |-> n] : n \in 0..MaxValue }
      \cup { [kind |-> "list", v |-> l] : l \in NameLists }
      \cup { [kind |-> "other", v |-> 0] }

IdleBit ==
    /\ bit_db = <<>>
    /\ bit_in = [kind |-> "other", v |-> 0]
    /\ bit_names = <<>>
    /\ bit_value = 0
    /\ bit_pc = "idle"

InitBitPart ==
    /\ bit_db \in { SortedSeq(S) : S \in SUBSET ChoiceValues }
    /\ bit_in \in BitInputs
    /\ bit_names = <<>>
    /\ bit_value = 0
    /\ bit_pc = "start"

\* cls.value_to_choices(value) on an integer
ValueToChoices ==
    /\ OnlyBit
    /\ bit_pc = "start"
    /\ bit_in.kind = "int"
    /\ bit_names' = value_to_choices(bit_in, bit_db)
    /\ bit_pc' = "names"
    /\ UNCHANGED <<bit_db, bit_in, bit_value>>

\* cls.choices_to_value(...) on the list value_to_choices returned
ChoicesToValueOfNames ==
    /\ OnlyBit
    /\ bit_pc = "names"
    /\ bit_value' = choices_to_value([kind |-> "list", v |-> bit_names])
    /\ bit_pc' = "done"
    /\ UNCHANGED <<bit_db, bit_in, bit_names>>

\* cls.choices_to_value(value) on a list of names or on something else
ChoicesToValueDirect ==
    /\ OnlyBit
    /\ bit_pc = "start"
    /\ bit_in.kind # "int"
    /\ bit_value' = choices_to_value(bit_in)
    /\ bit_pc' = "done"
    /\ UNCHANGED <<bit_db, bit_in, bit_names>>

NextBit == ValueToChoices \/ ChoicesToValueOfNames \/ ChoicesToValueDirect

(***************************************************************************)
(* validate_meta of ReplayStorageSerializer and CommandStorageSerializer   *)
(*                                                                         *)
(* A dict maps every key of MetaKeys to its value, or to Absent when the   *)
(* dict does not hold the key.  Dict objects live in a heap, so that two   *)
(* names of one object are seen as such.                                   *)
(***************************************************************************)
MetaKeys == {"BUCKET", "ENDPOINT"}
Absent == 0
MetaDicts == [MetaKeys -> 0..MaxMetaVal]
EmptyDict == [k \in MetaKeys |-> Absent]

\* a faulty merge: the stored value wins over the submitted one
DictUpdateKeepOld(d, other) ==
    [k \in MetaKeys |-> IF d[k] # Absent THEN d[k] ELSE other[k]]

\* dict.update(other): the contents of d afterwards
DictUpdate(d, other) ==
    [k \in MetaKeys |-> IF other[k] # Absent THEN other[k] ELSE d[k]]

IdleMeta ==
    /\ dicts = <<>>
    /\ meta_inst = 0
    /\ meta_in = EmptyDict
    /\ meta_out = 0
    /\ meta_before = EmptyDict
    /\ meta_db = EmptyDict
    /\ meta_pc = "idle"

\* a serializer for a create request (no instance) or bound to a stored row
InitMetaPart ==
    /\ meta_in \in MetaDicts
    /\ meta_out = 0
    /\ meta_pc = "request"
    /\ \/ /\ meta_inst = 0
          /\ dicts = <<>>
          /\ meta_before = EmptyDict
          /\ meta_db = EmptyDict
       \/ \E stored \in MetaDicts :
              /\ meta_inst = 1
              /\ dicts = <<stored>>
              /\ meta_before = stored
              /\ meta_db = stored

\* validate_meta(self, meta)
ValidateMeta ==
    /\ OnlyMeta
    /\ meta_pc = "request"
    /\ IF meta_inst # 0
       THEN \* _meta = self.instance.meta: the same dict object
            /\ dicts' = [dicts EXCEPT ![meta_inst] = DictUpdate(@, meta_in)]
            /\ meta_out' = meta_inst
       ELSE \* _meta = {}: a new dict object
            /\ dicts' = Append(dicts, DictUpdate(EmptyDict, meta_in))
            /\ meta_out' = Len(dicts) + 1
    /\ meta_pc' = "validated"
    /\ UNCHANGED <<meta_inst, meta_in, meta_before, meta_db>>

\* another field of the payload fails validation: nothing is saved
OtherFieldInvalid ==
    /\ OnlyMeta
    /\ meta_pc = "validated"
    /\ meta_pc' = "invalid"
    /\ UNCHANGED <<dicts, meta_inst, meta_in, meta_out, meta_before, meta_db>>

\* the payload is valid: ModelSerializer.save() sets instance.meta and writes it
SaveValidated ==
    /\ OnlyMeta
    /\ meta_pc = "validated"
    /\ meta_pc' = "saved"
    /\ meta_inst' = meta_out
    /\ meta_db' = dicts[meta_out]
    /\ UNCHANGED <<dicts, meta_in, meta_out, meta_before>>

NextMeta == ValidateMeta \/ OtherFieldInvalid \/ SaveValidated

(***************************************************************************)
(* get_meta_serializer of ReplayStorageSerializer and                      *)
(* CommandStorageSerializer                                                *)
(*                                                                         *)
(* A type is written by the name of its member in the type choices.        *)
(***************************************************************************)
\* replay_storage_type_serializer_classes_mapping
replay_storage_type_serializer_classes_mapping ==
    [s3 |-> "ReplayStorageTypeS3Serializer",
     ceph |-> "ReplayStorageTypeCephSerializer",
     swift |-> "ReplayStorageTypeSwiftSerializer",
     oss |-> "ReplayStorageTypeOSSSerializer",
     azure |-> "ReplayStorageTypeAzureSerializer"]

\* command_storage_type_serializer_classes_mapping
command_storage_type_serializer_classes_mapping ==
    [es |-> "CommandStorageTypeESSerializer"]

\* the mapping a serializer looks its class up in, and the model class it serves
MappingOf(kind) ==
    IF kind = "replay" THEN replay_storage_type_serializer_classes_mapping
    ELSE command_storage_type_serializer_classes_mapping

ModelOf(kind) == IF kind = "replay" THEN "ReplayStorage" ELSE "CommandStorage"

\* dict.get(key): "None" when the key has no entry
DictGet(mapping, key) ==
    IF key \in DOMAIN mapping THEN mapping[key] ELSE "None"

\* the truth value of a query parameter: None and '' are false
Truthy(str) == str \notin {"None", ""}

\* types of stored rows and values of the 'type' query parameter
StorageTypes == {"s3", "ceph", "swift", "oss", "azure", "es", "server", "null"}
QueryTypes == StorageTypes \cup {"None", "", "bogus"}

\* what self.instance may be: None, or a row of either storage model
SerInstances ==
    { [cls |-> "None", type |-> "None"] }
      \cup { [cls |-> c, type |-> t] : c \in {"ReplayStorage", "CommandStorage"},
                                        t \in StorageTypes }

\* a faulty get_meta_serializer: the two tests are in the other order, so that
\* the query parameter overrides the instance's type
get_meta_serializer_QueryLast(kind, instance, query_type) ==
    LET c0 == "None"
        c1 == IF instance.cls = ModelOf(kind)
              THEN DictGet(MappingOf(kind), instance.type) ELSE c0
        c2 == IF Truthy(query_type) THEN DictGet(MappingOf(kind), query_type) ELSE c1
    IN IF c2 = "None" THEN "Serializer" ELSE c2

\* get_meta_serializer(self): the class of the serializer it returns
get_meta_serializer(kind, instance, query_type) ==
    LET c0 == "None"
        \* if query_type: serializer_class = mapping.get(query_type)
        c1 == IF Truthy(query_type) THEN DictGet(MappingOf(kind), query_type) ELSE c0
        \* if isinstance(self.instance, <model>):
        \*     serializer_class = mapping.get(self.instance.type)
        c2 == IF instance.cls = ModelOf(kind)
              THEN DictGet(MappingOf(kind), instance.type) ELSE c1
    \* if serializer_class is None: serializer_class = serializers.Serializer
    IN IF c2 = "None" THEN "Serializer" ELSE c2

IdleSer ==
    /\ ser_kind = "idle"
    /\ ser_inst = [cls |-> "None", type |-> "None"]
    /\ ser_query = "None"
    /\ ser_class = ""
    /\ ser_pc = "idle"

InitSerPart ==
    /\ ser_kind \in {"replay", "command"}
    /\ ser_inst \in SerInstances
    /\ ser_query \in QueryTypes
    /\ ser_class = ""
    /\ ser_pc = "start"

\* the meta field asks the serializer for its type-specific serializer
GetMetaSerializer ==
    /\ OnlySer
    /\ ser_pc = "start"
    /\ ser_class' = get_meta_serializer(ser_kind, ser_inst, ser_query)
    /\ ser_pc' = "done"
    /\ UNCHANGED <<ser_kind, ser_inst, ser_query>>

NextSer == GetMetaSerializer

(***************************************************************************)
(* ProtocolsMixin and AssetQuerySet.has_protocol                           *)
(*                                                                         *)
(* A string is a sequence of characters; the three letters of "ssh" are    *)
(* kept together as one element, and no other element holds one of them.   *)
(***************************************************************************)
ProtoDigits == {"2", "3"}
EntryChars == {"ssh", "/"} \cup ProtoDigits

\* int(port) for a string of digits
DigitValue(c) == IF c = "2" THEN 2 ELSE 3

RECURSIVE IntOf(_)
IntOf(str) ==
    IF str = <<>> THEN 0
    ELSE 10 * IntOf(SubSeq(str, 1, Len(str) - 1)) + DigitValue(str[Len(str)])

\* whether int(port) returns: the string is one or more digits
IsInt(str) == str # <<>> /\ \A i \in 1..Len(str) : str[i] \in ProtoDigits

\* str.split(sep): the pieces between the separators
RECURSIVE Split(_, _)
Split(str, sep) ==
    LET i == Find(str, sep)
    IN IF i = 0 THEN <<str>>
       ELSE <<SubSeq(str, 1, i - 1)>> \o Split(SubSeq(str, i + 1, Len(str)), sep)

\* sub in str, which is also what the lookup protocols__contains=sub tests
Contains(str, sub) ==
    \E i \in 0..(Len(str) - Len(sub)) : SubSeq(str, i + 1, i + Len(sub)) = sub

\* ProtocolsMixin.protocols_as_list
protocols_as_list(protocols) ==
    IF protocols = <<>> THEN <<>> ELSE Split(protocols, " ")

\* a faulty d[name] = port: the first entry of a name is kept
DictSetKeepFirst(d, name, port) ==
    IF \E k \in 1..Len(d) : d[k].name = name
    THEN d
    ELSE Append(d, [name |-> name, port |-> port])

\* d[name] = port on an OrderedDict kept as its items in order
DictSet(d, name, port) ==
    IF \E k \in 1..Len(d) : d[k].name = name
    THEN [k \in 1..Len(d) |-> IF d[k].name = name THEN [name |-> name, port |-> port]
                                ELSE d[k]]
    ELSE Append(d, [name |-> name, port |-> port])

\* the loop of protocols_as_dict over the entries that are left
RECURSIVE DictLoop(_, _)
DictLoop(d, entries) ==
    IF entries = <<>> THEN [raised |-> FALSE, d |-> d]
    ELSE LET i == Head(entries)
             pieces == Split(i, "/")
         IN IF Find(i, "/") = 0 THEN DictLoop(d, Tail(entries))
            ELSE IF pieces[1] = <<>> \/ pieces[2] = <<>> THEN DictLoop(d, Tail(entries))
            ELSE IF ~IsInt(pieces[2]) THEN [raised |-> TRUE, d |-> <<>>]
            ELSE DictLoop(DictSet(d, pieces[1], IntOf(pieces[2])), Tail(entries))

\* ProtocolsMixin.protocols_as_dict
protocols_as_dict(protocols) == DictLoop(<<>>, protocols_as_list(protocols))

\* ProtocolsMixin.has_protocol(name): name in self.protocols_as_dict
has_protocol(protocols, name) ==
    LET r == protocols_as_dict(protocols)
    IN IF r.raised THEN "ValueError"
       ELSE IF \E k \in 1..Len(r.d) : r.d[k].name = name THEN "yes" ELSE "no"

\* AssetQuerySet.has_protocol(name): filter(protocols__contains=name) on one row
queryset_has_protocol(protocols, name) ==
    IF Contains(protocols, name) THEN "yes" ELSE "no"

\* the port of Asset.port and of ssh_port when there is no ssh entry
DefaultSshPort == 22

\* ProtocolsMixin.ssh_port: self.protocols_as_dict.get("ssh", 22)
ssh_port(r) ==
    IF \E k \in 1..Len(r.d) : r.d[k].name = <<"ssh">>
    THEN r.d[CHOOSE k \in 1..Len(r.d) : r.d[k].name = <<"ssh">>].port
    ELSE DefaultSshPort

\* the strings over EntryChars of length n, and of length at most n
RECURSIVE EntriesOfLen(_)
EntriesOfLen(n) ==
    IF n = 0 THEN { <<>> }
    ELSE { Append(str, c) : str \in EntriesOfLen(n - 1), c \in EntryChars }

RECURSIVE EntriesUpTo(_)
EntriesUpTo(n) == IF n = 0 THEN { <<>> } ELSE EntriesOfLen(n) \cup EntriesUpTo(n - 1)

\* the protocols strings: empty, one entry, or two entries with a space between
ProtocolStrings ==
    EntriesUpTo(MaxEntryLen)
      \cup { e1 \o <<" ">> \o e2 : e1, e2 \in EntriesUpTo(MaxEntryLen) }

\* the protocol names asked for
ProtocolNames == { <<"ssh">>, <<"2">> }

NoDict == [raised |-> FALSE, d |-> <<>>]

IdleProto ==
    /\ pr_protocols = <<>>
    /\ pr_name = <<>>
    /\ pr_selected = ""
    /\ pr_has = ""
    /\ pr_dict = NoDict
    /\ pr_ssh_port = 0
    /\ pr_pc = "idle"

InitProtoPart ==
    /\ pr_protocols \in ProtocolStrings
    /\ pr_name = <<>>
    /\ pr_selected = ""
    /\ pr_has = ""
    /\ pr_dict = NoDict
    /\ pr_ssh_port = 0
    /\ pr_pc = "start"

\* Asset.objects.has_protocol(name), seen from the asset's row
QuerysetHasProtocol(name) ==
    /\ OnlyProto
    /\ pr_pc = "start"
    /\ pr_name' = name
    /\ pr_selected' = queryset_has_protocol(pr_protocols, name)
    /\ pr_pc' = "selected"
    /\ UNCHANGED <<pr_protocols, pr_has, pr_dict, pr_ssh_port>>

\* asset.has_protocol(name) for the same name
InstanceHasProtocol ==
    /\ OnlyProto
    /\ pr_pc = "selected"
    /\ pr_has' = has_protocol(pr_protocols, pr_name)
    /\ pr_pc' = "compared"
    /\ UNCHANGED <<pr_protocols, pr_name, pr_selected, pr_dict, pr_ssh_port>>

\* asset.protocols_as_dict
ProtocolsAsDict ==
    /\ OnlyProto
    /\ pr_pc = "start"
    /\ pr_dict' = protocols_as_dict(pr_protocols)
    /\ pr_pc' = "dict"
    /\ UNCHANGED <<pr_protocols, pr_name, pr_selected, pr_has, pr_ssh_port>>

\* asset.ssh_port, when protocols_as_dict does not raise
SshPort ==
    /\ OnlyProto
    /\ pr_pc = "dict"
    /\ ~pr_dict.raised
    /\ pr_ssh_port' = ssh_port(pr_dict)
    /\ pr_pc' = "port"
    /\ UNCHANGED <<pr_protocols, pr_name, pr_selected, pr_has, pr_dict>>

NextProto ==
    \/ \E name \in ProtocolNames : QuerysetHasProtocol(name)
    \/ InstanceHasProtocol
    \/ ProtocolsAsDict
    \/ SshPort

(***************************************************************************)
(* Asset.save                                                              *)
(***************************************************************************)
AssetTypes == {"linux", "windows", "mysql"}
AssetCategories == {"host", "database"}

\* the platforms an asset can point to, each with its own type and category
Platforms ==
    { [type |-> "linux", category |-> "host"],
      [type |-> "windows", category |-> "host"],
      [type |-> "mysql", category |-> "database"] }

Assets == [type : AssetTypes, category : AssetCategories, platform : Platforms]

AssetFields == {"type", "category", "platform"}

\* the update_fields argument of save: absent, or some of the fields
NoUpdateFields == {"*"}
UpdateFields == {NoUpdateFields} \cup SUBSET AssetFields

NoRow == [type |-> "", category |-> "", platform |-> [type |-> "", category |-> ""]]

\* a faulty save: only the type is taken from the platform
BeforeWriteTypeOnly(asset) ==
    [asset EXCEPT !.type = asset.platform.type]

\* the two assignments of Asset.save before super().save()
BeforeWrite(asset) ==
    [asset EXCEPT !.type = asset.platform.type,
                  !.category = asset.platform.category]

IdleAsset ==
    /\ as_asset = NoRow
    /\ as_before = NoRow
    /\ as_row = NoRow
    /\ as_written = {}
    /\ as_op = "idle"

InitAssetPart ==
    /\ as_asset \in Assets
    /\ as_before = NoRow
    /\ as_row = NoRow
    /\ as_written = {}
    /\ as_op = "new"

\* asset.type = t
AssignType(t) ==
    /\ OnlyAsset
    /\ as_asset' = [as_asset EXCEPT !.type = t]
    /\ as_op' = "assign"
    /\ UNCHANGED <<as_before, as_row, as_written>>

\* asset.category = c
AssignCategory(c) ==
    /\ OnlyAsset
    /\ as_asset' = [as_asset EXCEPT !.category = c]
    /\ as_op' = "assign"
    /\ UNCHANGED <<as_before, as_row, as_written>>

\* asset.platform = platform
AssignPlatform(platform) ==
    /\ OnlyAsset
    /\ as_asset' = [as_asset EXCEPT !.platform = platform]
    /\ as_op' = "assign"
    /\ UNCHANGED <<as_before, as_row, as_written>>

\* the fields super().save() writes: all of them without update_fields
WrittenFields(update_fields) ==
    IF update_fields = NoUpdateFields THEN AssetFields ELSE update_fields

\* the row after the write of the given fields of the object
WriteRow(row, asset, fields) ==
    [f \in AssetFields |-> IF f \in fields THEN asset[f] ELSE row[f]]

\* asset.save(update_fields=...): the two assignments, then super().save(),
\* which writes the row or raises; with update_fields it needs a row to update
Save(written, update_fields) ==
    /\ OnlyAsset
    /\ (written /\ update_fields \notin {NoUpdateFields, {}}) => as_row # NoRow
    /\ as_before' = as_asset
    /\ as_asset' = BeforeWrite(as_asset)
    /\ as_written' = IF written THEN WrittenFields(update_fields) ELSE {}
    /\ as_row' = IF written
                 THEN WriteRow(as_row, BeforeWrite(as_asset), WrittenFields(update_fields))
                 ELSE as_row
    /\ as_op' = IF written THEN "save" ELSE "save_raised"

NextAsset ==
    \/ \E t \in AssetTypes : AssignType(t)
    \/ \E c \in AssetCategories : AssignCategory(c)
    \/ \E platform \in Platforms : AssignPlatform(platform)
    \/ \E written \in BOOLEAN, update_fields \in UpdateFields : Save(written, update_fields)

(***************************************************************************)
(* Specifications: one per part of the program, the other parts idle       *)
(***************************************************************************)
InitUnion == InitUnionPart /\ IdleES /\ IdleBulk /\ IdleBit /\ IdleMeta /\ IdleSer /\ IdleProto /\ IdleAsset
SpecUnion == InitUnion /\ [][NextUnion]_vars

InitES == InitESPart /\ IdleUnion /\ IdleBulk /\ IdleBit /\ IdleMeta /\ IdleSer /\ IdleProto /\ IdleAsset
SpecES == InitES /\ [][NextES]_vars

InitBulk == InitBulkPart /\ IdleUnion /\ IdleES /\ IdleBit /\ IdleMeta /\ IdleSer /\ IdleProto /\ IdleAsset
SpecBulk == InitBulk /\ [][NextBulk]_vars

InitBit == InitBitPart /\ IdleUnion /\ IdleES /\ IdleBulk /\ IdleMeta /\ IdleSer /\ IdleProto /\ IdleAsset
SpecBit == InitBit /\ [][NextBit]_vars

InitMeta == InitMetaPart /\ IdleUnion /\ IdleES /\ IdleBulk /\ IdleBit /\ IdleSer /\ IdleProto /\ IdleAsset
SpecMeta == InitMeta /\ [][NextMeta]_vars

InitSer == InitSerPart /\ IdleUnion /\ IdleES /\ IdleBulk /\ IdleBit /\ IdleMeta /\ IdleProto /\ IdleAsset
SpecSer == InitSer /\ [][NextSer]_vars

InitProto == InitProtoPart /\ IdleUnion /\ IdleES /\ IdleBulk /\ IdleBit /\ IdleMeta /\ IdleSer /\ IdleAsset
SpecProto == InitProto /\ [][NextProto]_vars

InitAsset == InitAssetPart /\ IdleUnion /\ IdleES /\ IdleBulk /\ IdleBit /\ IdleMeta /\ IdleSer /\ IdleProto
SpecAsset == InitAsset /\ [][NextAsset]_vars

(***************************************************************************)
(* Claims about UnionQuerySet                                              *)
(***************************************************************************)
\* the records held by all deferred lists together
RECURSIVE TotalRecorded(_)
TotalRecorded(ls) == IF ls = <<>> THEN 0 ELSE Len(Head(ls)) + TotalRecorded(Tail(ls))

\* the attribute names whose lookup executes the union
TerminalItems == not_return_qs \cup QuerySetNonMethods

\* C1: constructing a UnionQuerySet and calling a deferred queryset method on it
\* never run __execute; a deferred call appends exactly one record (its name and
\* arguments) to one deferred list and changes no other list; __execute runs only
\* for an attribute in not_return_qs, a non-method attribute of the first
\* queryset, or iteration, indexing, str and repr.
C1_LazyUntilTerminal ==
    [][ /\ (op'.kind \in {"construct", "defer", "own"} =>
               executions' = executions /\ lastResult' = lastResult)
        /\ (op'.kind = "construct" =>
               TotalRecorded(lists') = TotalRecorded(lists))
        /\ (op'.kind = "defer" =>
               /\ Len(lists') = Len(lists)
               /\ \E l \in DOMAIN lists :
                     /\ lists'[l] = Append(lists[l], [name |-> op'.item, arg |-> op'.arg])
                     /\ \A k \in DOMAIN lists : k # l => lists'[k] = lists[k])
        /\ (executions' # executions =>
               \/ op'.kind = "terminal" /\ op'.item \in TerminalItems
               \/ op'.kind = "special" /\ op'.item \in SpecialMethods)
      ]_vars

\* C1 witness: deferred calls were recorded without any execution, and a later
\* terminal operation then ran the union
C1_Witness ==
    /\ op.kind = "terminal"
    /\ executions = 1
    /\ lists[uqs[op.obj].before] # <<>>
    /\ lists[uqs[op.obj].after] # <<>>

\* the union of parts[1..n], built left to right
RECURSIVE LeftUnion(_, _)
LeftUnion(parts, n) ==
    IF n = 1 THEN parts[1]
    ELSE LeftUnion(parts, n - 1) \o parts[n] \o <<UnionTok>>

CallToks(calls) == [k \in 1..Len(calls) |-> CallTok(calls[k].name, calls[k].arg)]

\* what executing o must give, from the history of the calls made
ExpectedResult(o) ==
    LET made == callLog[uqs[o].root]
        pre == SelectSeq(made, LAMBDA c : c.name # "order_by")
        post == SelectSeq(made, LAMBDA c : c.name = "order_by")
        ql == uqs[o].queryset_list
        parts == [i \in 1..Len(ql) |-> <<ql[i]>> \o CallToks(pre)]
    IN LeftUnion(parts, Len(ql)) \o CallToks(post)

\* C2: the queryset an execution returns is: each constituent queryset with
\* every recorded call other than order_by applied once, in the order the calls
\* were made; these unioned left to right in constructor order; then every
\* recorded order_by call applied to the union, in the order made.
C2_ExecuteOrder ==
    op.kind \in {"terminal", "special"} =>
        /\ lists[uqs[op.obj].before] =
               SelectSeq(callLog[uqs[op.obj].root], LAMBDA c : c.name # "order_by")
        /\ lists[uqs[op.obj].after] =
               SelectSeq(callLog[uqs[op.obj].root], LAMBDA c : c.name = "order_by")
        /\ lastResult = ExpectedResult(op.obj)

\* C2 witness: an execution over several querysets with two pre-union calls and
\* an order_by recorded
C2_Witness ==
    /\ op.kind \in {"terminal", "special"}
    /\ Len(uqs[op.obj].queryset_list) > 1
    /\ Len(lists[uqs[op.obj].before]) >= 1
    /\ Len(lists[uqs[op.obj].after]) >= 1

\* the calls recorded for o
Recorded(o) == <<lists[uqs[o].before], lists[uqs[o].after]>>

\* C6: a deferred call leaves the recorded pre-union and post-union calls of
\* every existing UnionQuerySet, the receiver included, unchanged.
C6_ReceiverUnchanged ==
    [][ op'.kind = "defer" =>
            \A o \in DOMAIN uqs :
                <<lists'[uqs[o].before], lists'[uqs[o].after]>> = Recorded(o) ]_vars

(***************************************************************************)
(* Claims about es_host_format_validator                                   *)
(***************************************************************************)
\* the network location reads host:port: one colon, a non-empty host before it
\* and one or more digits, and nothing else, after it
HostPortForm(netloc) ==
    \E k \in 1..Len(netloc) :
        /\ netloc[k] = ":"
        /\ \A j \in 1..Len(netloc) : j # k => netloc[j] # ":"
        /\ k > 1
        /\ k < Len(netloc)
        /\ \A j \in (k + 1)..Len(netloc) : netloc[j] \in Digits

C4_OnlyValidationError ==
    es_outcome \in {"idle", "pending", "return", "ValidationError"}

(***************************************************************************)
(* Claims about MultiTableChildQueryset.bulk_create                        *)
(***************************************************************************)
AllIds(objs) == { objs[i].id : i \in 1..Len(objs) }

\* C5: at no point does a child row exist without a parent row of the same id;
\* once a call on a non-empty list has reached the insert of the child rows,
\* every object's parent link equals its id and the parent table holds one new
\* row per object, while no child row of the call exists before that; a call on
\* an empty list returns its input and leaves both tables as they were.
C5_ParentsBeforeChildren ==
    /\ childRows \subseteq parentRows
    /\ committedChild \subseteq committedParent
    /\ bc_pc = "parents" => childRows = bc_before.child
    /\ (bc_pc = "children" \/ (bc_pc = "returned" /\ bc_objs # <<>>)) =>
           /\ \A i \in 1..Len(bc_objs) : bc_objs[i].pk = bc_objs[i].id
           /\ AllIds(bc_objs) \subseteq parentRows
           /\ Cardinality(parentRows \ bc_before.parent) = Len(bc_objs)
           /\ childRows \ bc_before.child \subseteq AllIds(bc_objs)
    /\ (bc_pc = "returned" /\ bc_objs = <<>>) =>
           /\ bc_result = <<>>
           /\ parentRows = bc_before.parent
           /\ childRows = bc_before.child

\* C5 witness: a call in batches has inserted both parents and the first child
C5_Witness ==
    /\ bc_pc = "children"
    /\ Len(bc_objs) = 2
    /\ bc_pos = 2
    /\ Cardinality(childRows \ bc_before.child) = 1

\* C8: when the insert of the child rows has raised and no transaction is open
\* any more, the parent table holds no row that the call inserted.
C8_AllOrNothing ==
    (bc_pc = "raised" /\ bc_failedIn = "children" /\ ~bc_inAtomic) =>
        parentRows = bc_before.parent

(***************************************************************************)
(* Claims about BitOperationChoice                                         *)
(***************************************************************************)
\* the positions of the bits set in n
BitSet(n) == { k \in 0..(MaxChoice + MaxValue) : (n \div (2 ^ k)) % 2 = 1 }

\* the bits set in the bitwise OR of the values in S
BitsOfAll(S) == UNION { BitSet(i) : i \in S }

DbValues == { bit_db[k] : k \in 1..Len(bit_db) }

\* the values named by the known names of a list
NamedValues(l) ==
    { i \in ChoiceValues : \E k \in 1..Len(l) : l[k] = NAME_MAP[i] }

\* C7: for an integer v that is a bitwise OR of DB_CHOICES values,
\* choices_to_value(value_to_choices(v)) = v; for any other v >= 0 the result
\* has no bit that v lacks; choices_to_value of a list is the OR of the values
\* of its known names (unknown names ignored), NONE when it has none; and
\* choices_to_value of a non-list is NONE.
C7_RoundTrip ==
    bit_pc = "done" =>
        /\ bit_in.kind = "int" =>
              /\ (\E S \in SUBSET DbValues : BitsOfAll(S) = BitSet(bit_in.v))
                     => bit_value = bit_in.v
              /\ BitSet(bit_value) \subseteq BitSet(bit_in.v)
        /\ bit_in.kind = "list" =>
              /\ BitSet(bit_value) = BitsOfAll(NamedValues(bit_in.v))
              /\ NamedValues(bit_in.v) = {} => bit_value = NONE
        /\ bit_in.kind = "other" => bit_value = NONE

\* C7 witness: a value made of two overlapping choices went round
C7_Witness ==
    /\ bit_pc = "done"
    /\ bit_in = [kind |-> "int", v |-> 7]
    /\ bit_db = <<3, 5>>
    /\ bit_value = 7

(***************************************************************************)
(* Claims about validate_meta                                              *)
(***************************************************************************)
\* C9: the dict validate_meta returns holds every submitted key with its
\* submitted value and every stored key that was not submitted with its stored
\* value, and no other key; without an instance it equals the submitted meta.
C9_MergedMeta ==
    meta_pc = "validated" =>
        /\ \A k \in MetaKeys :
              /\ meta_in[k] # Absent => dicts[meta_out][k] = meta_in[k]
              /\ meta_in[k] = Absent => dicts[meta_out][k] = meta_before[k]
        /\ meta_inst = 0 => dicts[meta_out] = meta_in

\* C9 witness: a stored key was kept and another overwritten
C9_Witness ==
    /\ meta_pc = "validated"
    /\ meta_inst # 0
    /\ meta_before["BUCKET"] = 1 /\ meta_in["BUCKET"] = Absent
    /\ meta_before["ENDPOINT"] = 1 /\ meta_in["ENDPOINT"] = 2
    /\ dicts[meta_out] = [k \in MetaKeys |-> IF k = "BUCKET" THEN 1 ELSE 2]

\* C10: after validate_meta has run, also when another field then fails,
\* self.instance.meta is what it was before the request.
C10_InstanceMetaUnchanged ==
    (meta_pc \in {"validated", "invalid"} /\ meta_inst # 0) =>
        dicts[meta_inst] = meta_before

(***************************************************************************)
(* Claims about get_meta_serializer                                        *)
(***************************************************************************)
\* the serializer is bound to a stored row of its own model
BoundToStorage ==
    \/ ser_kind = "replay" /\ ser_inst.cls = "ReplayStorage"
    \/ ser_kind = "command" /\ ser_inst.cls = "CommandStorage"

\* the types with an entry in the serializer's mapping
MappedTypes ==
    IF ser_kind = "replay" THEN {"s3", "ceph", "swift", "oss", "azure"} ELSE {"es"}

\* C11: bound to a stored row, the row's type alone decides the class and the
\* 'type' query parameter is ignored; otherwise the query parameter decides; a
\* deciding type that is missing or has no entry in the mapping gives the base
\* Serializer; a class is returned in every case.
C11_DecidingType ==
    ser_pc = "done" =>
        LET deciding == IF BoundToStorage THEN ser_inst.type ELSE ser_query
        IN /\ deciding \in MappedTypes => ser_class = MappingOf(ser_kind)[deciding]
           /\ deciding \notin MappedTypes => ser_class = "Serializer"
           /\ ser_class \notin {"", "None"}

\* C11 witness: a row whose type has no entry, asked with a query parameter that
\* has one, got the base Serializer
C11_Witness ==
    /\ ser_pc = "done"
    /\ ser_kind = "replay"
    /\ ser_inst = [cls |-> "ReplayStorage", type |-> "server"]
    /\ ser_query = "s3"
    /\ ser_class = "Serializer"

(***************************************************************************)
(* Claims about ProtocolsMixin and AssetQuerySet.has_protocol              *)
(***************************************************************************)
\* C12: for every protocol name and protocols string, the queryset test selects
\* the asset exactly when the asset's own has_protocol returns True.
C12_QuerysetAgreesWithInstance ==
    pr_pc = "compared" => (pr_selected = "yes" <=> pr_has = "yes")

\* the entries of a protocols string: [from, to] with no space inside and a
\* space, or the end of the string, on either side (from = to + 1: empty entry)
EntrySpans(str) ==
    { sp \in (1..(Len(str) + 1)) \X (0..Len(str)) :
        /\ sp[1] <= sp[2] + 1
        /\ \A k \in sp[1]..sp[2] : str[k] # " "
        /\ (sp[1] = 1 \/ str[sp[1] - 1] = " ")
        /\ (sp[2] = Len(str) \/ str[sp[2] + 1] = " ") }

\* the first '/' of the entry, 0 when it has none; its name; its port, which
\* ends before a second '/'
SlashOf(str, sp) ==
    IF \E k \in sp[1]..sp[2] : str[k] = "/"
    THEN CHOOSE k \in sp[1]..sp[2] :
             str[k] = "/" /\ \A j \in sp[1]..(k - 1) : str[j] # "/"
    ELSE 0

NameOf(str, sp) == SubSeq(str, sp[1], SlashOf(str, sp) - 1)

PortEnd(str, sp) ==
    LET sl == SlashOf(str, sp)
    IN IF \E k \in (sl + 1)..sp[2] : str[k] = "/"
       THEN (CHOOSE k \in (sl + 1)..sp[2] :
                 str[k] = "/" /\ \A j \in (sl + 1)..(k - 1) : str[j] # "/") - 1
       ELSE sp[2]

PortOf(str, sp) == SubSeq(str, SlashOf(str, sp) + 1, PortEnd(str, sp))

\* the entries that count: with a '/', a non-empty name and a non-empty port
GoodSpans(str) ==
    { sp \in EntrySpans(str) :
        SlashOf(str, sp) # 0 /\ NameOf(str, sp) # <<>> /\ PortOf(str, sp) # <<>> }

\* the decimal value of a string of digits, digit by digit from the left
DecimalValue(str) ==
    LET pow(k) == 10 ^ k
        val[i \in 0..Len(str)] ==
            IF i = 0 THEN 0
            ELSE val[i - 1] + (IF str[i] = "2" THEN 2 ELSE 3) * pow(Len(str) - i)
    IN val[Len(str)]

NumericPorts(str) ==
    \A sp \in GoodSpans(str) :
        \A k \in 1..Len(PortOf(str, sp)) : PortOf(str, sp)[k] \in ProtoDigits

\* the last counting entry with the given name
LastSpan(str, name) ==
    CHOOSE sp \in GoodSpans(str) :
        /\ NameOf(str, sp) = name
        /\ \A other \in GoodSpans(str) : NameOf(str, other) = name => other[1] <= sp[1]

\* C13: for a protocols string whose ports are numeric, protocols_as_dict holds
\* a name exactly when an entry with a '/', a non-empty name and a non-empty
\* port carries it, once, with the integer port of the last such entry (so the
\* empty string gives the empty mapping); ssh_port is the port of the ssh entry
\* when there is one and 22 otherwise.
C13_ProtocolsAsDict ==
    (pr_pc \in {"dict", "port"} /\ NumericPorts(pr_protocols)) =>
        LET names == { NameOf(pr_protocols, sp) : sp \in GoodSpans(pr_protocols) }
            d == pr_dict.d
        IN /\ ~pr_dict.raised
           /\ { d[k].name : k \in 1..Len(d) } = names
           /\ \A j, k \in 1..Len(d) : d[j].name = d[k].name => j = k
           /\ \A k \in 1..Len(d) :
                  d[k].port = DecimalValue(PortOf(pr_protocols,
                                                  LastSpan(pr_protocols, d[k].name)))
           /\ pr_protocols = <<>> => d = <<>>
           /\ pr_pc = "port" =>
                  IF <<"ssh">> \in names
                  THEN pr_ssh_port = DecimalValue(PortOf(pr_protocols,
                                                  LastSpan(pr_protocols, <<"ssh">>)))
                  ELSE pr_ssh_port = 22

\* C13 witness: ssh is given twice and the port of the second entry is returned
C13_Witness ==
    /\ pr_pc = "port"
    /\ pr_protocols = <<"ssh", "/", "2", " ", "ssh", "/", "3">>
    /\ pr_dict.d = << [name |-> <<"ssh">>, port |-> 3] >>
    /\ pr_ssh_port = 3

(***************************************************************************)
(* Claims about Asset.save                                                 *)
(***************************************************************************)
\* C14: right after any save the asset's type and category are those of its
\* platform, whatever was assigned to the two fields before, and what was
\* written of the two fields to the row is the platform's value.
C14_SaveTakesPlatform ==
    /\ as_op \in {"save", "save_raised"} =>
           /\ as_asset.type = as_asset.platform.type
           /\ as_asset.category = as_asset.platform.category
           /\ as_asset.platform = as_before.platform
    /\ (as_op = "save" /\ "type" \in as_written) =>
           as_row.type = as_before.platform.type
    /\ (as_op = "save" /\ "category" \in as_written) =>
           as_row.category = as_before.platform.category

\* C14 witness: both fields had been given other values than the platform's
C14_Witness ==
    /\ as_op = "save"
    /\ as_before.type = "windows" /\ as_before.category = "host"
    /\ as_before.platform = [type |-> "mysql", category |-> "database"]
    /\ as_asset.type = "mysql" /\ as_asset.category = "database"
    /\ as_written = AssetFields
    /\ as_row = as_asset
====
